---- MODULE Spec2Model ----
(***************************************************************************)
(* Order-placement reference implementation (clean architecture example): *)
(* the Order aggregate, its pricing strategies, and the application        *)
(* service that persists orders through the PostgreSQL repository.         *)
(*                                                                         *)
(* Strings are sequences of tokens (characters or literal chunks), so      *)
(* that trimming, concatenation and "contains" are computed, not assumed.  *)
(* Numbers are integers; the one division of the code, pct / 100, is kept  *)
(* exact as a rational <<numerator, denominator>>.                         *)
(***************************************************************************)
EXTENDS Integers, Sequences, FiniteSets, TLC

VARIABLES
  heap,      \* the Order objects the caller holds, by reference (Order, order-id.ts:54-61)
  arrays,    \* the item arrays passed to the factories, by reference (Order.items)
  calls,     \* the cancel() calls made: receiver, and what was returned or thrown
  last,      \* the caller's latest factory call or subtotal read, with its result
  strategy,  \* the latest pricing strategy construction, with its outcome
  priced,    \* the latest calculateFinalPrice call on it, with its result
  db,        \* the orders table (PostgresOrderRepository), by id
  procs,     \* the OrderService calls in flight, each awaiting its save
  resp,      \* what the latest finished OrderService call returned or threw
  now,       \* the clock behind new Date()
  objs,      \* the id value objects a caller holds, by reference (OrderId, CustomerId)
  tried,     \* the latest value-object factory, parse or equals call, with its result
  customers, \* the customers table (PostgresCustomerRepository), by id
  regs,      \* the registerCustomer calls in flight, each awaiting its save
  registered \* the customers registerCustomer has returned, in order

orderVars == <<heap, arrays, calls, last>>
pricingVars == <<strategy, priced>>
serviceVars == <<db, procs, resp, now>>
valueVars == <<objs, tried>>
customerVars == <<customers, regs, registered>>
vars ==
  <<heap, arrays, calls, last, strategy, priced, db, procs, resp, now, objs, tried,
    customers, regs, registered>>

\* ------------------------------------------------------------------ bounds

\* Factory calls (Order.create / Order.reconstitute) a run makes.
MaxNew == 1
\* cancel() calls a run makes.
MaxCancel == 2
\* Id value objects a caller holds at once.
MaxObjs == 3
\* Largest quantity and largest price per unit given to OrderItem.create.
MaxQuantity == 2
MaxPrice == 2
\* Largest subtotal and threshold amount tried on a pricing strategy.
MaxAmount == 3
\* How far below 0 and above 100 the discount percentages tried go.
PctMargin == 2
\* Service calls in flight at once.
MaxProcs == 2
\* Latest reading of the clock behind new Date().
MaxClock == 2
\* Items in an array after the caller has pushed to it.
MaxItems == 3
\* Customers registered in one run.
MaxRegistered == 2

\* ----------------------------------------------------------------- strings

Str(chunk) == <<chunk>>

IsSpace(c) == c = " "

RECURSIVE trimStart(_)
trimStart(s) ==
  IF s = <<>> THEN <<>>
  ELSE IF IsSpace(Head(s)) THEN trimStart(Tail(s)) ELSE s

RECURSIVE trimEnd(_)
trimEnd(s) ==
  IF s = <<>> THEN <<>>
  ELSE IF IsSpace(s[Len(s)]) THEN trimEnd(SubSeq(s, 1, Len(s) - 1)) ELSE s

\* String.prototype.trim
trim(s) == trimEnd(trimStart(s))

\* String.prototype.includes
Includes(s, part) ==
  \E i \in 1..(Len(s) - Len(part) + 1) : SubSeq(s, i, i + Len(part) - 1) = part

\* -------------------------------------------------------------- exceptions

Throw(name, message) == [kind |-> "throw", error |-> name, message |-> message]

\* ----------------------------------------------------------------- OrderId

SampleIdStrings == {<<"o", "1">>, <<"o", "2">>, <<" ">>, <<>>}

\* OrderId.create that wraps the trimmed string.
OrderId_create_trimmed(value) ==
  IF value = <<>> \/ Len(trim(value)) = 0
  THEN Throw("InvalidOrderIdError", Str("OrderId cannot be empty"))
  ELSE [kind |-> "return", value |-> trim(value)]

OrderId_create(value) ==
  IF value = <<>> \/ Len(trim(value)) = 0
  THEN Throw("InvalidOrderIdError", Str("OrderId cannot be empty"))
  ELSE [kind |-> "return", value |-> value]

OrderId_toString(id) == id

\* equals on two OrderId objects, each a record holding the private value.
OrderId_equals(this, other) == this.value = other.value

\* The OrderId values a caller can hold: the constructor is private.
OrderIds ==
  {OrderId_create(s).value : s \in {t \in SampleIdStrings : OrderId_create(t).kind = "return"}}

\* -------------------------------------------------------------- CustomerId

CustomerId_create(value) ==
  IF value = <<>> \/ Len(trim(value)) = 0
  THEN Throw("InvalidCustomerIdError", Str("CustomerId cannot be empty"))
  ELSE [kind |-> "return", value |-> value]

CustomerId_toString(id) == id

CustomerId_equals(this, other) == this.value = other.value

\* ------------------------------------------------------------ CustomerName

MaxNameLength == 200

\* CustomerName.create that wraps the string as given, untrimmed.
CustomerName_create_untrimmed(value) ==
  IF value = <<>> \/ Len(trim(value)) = 0
  THEN Throw("InvalidCustomerNameError", Str("Customer name cannot be empty"))
  ELSE IF Len(trim(value)) > MaxNameLength
  THEN Throw("InvalidCustomerNameError", Str("Customer name cannot exceed 200 characters"))
  ELSE [kind |-> "return", value |-> value]

CustomerName_create(value) ==
  IF value = <<>> \/ Len(trim(value)) = 0
  THEN Throw("InvalidCustomerNameError", Str("Customer name cannot be empty"))
  ELSE IF Len(trim(value)) > MaxNameLength
  THEN Throw("InvalidCustomerNameError", Str("Customer name cannot exceed 200 characters"))
  ELSE [kind |-> "return", value |-> trim(value)]

CustomerName_toString(this) == this.value

CustomerName_equals(this, other) == this.value = other.value

\* ----------------------------------------------------------- CustomerEmail

\* String.prototype.toLowerCase, on the letters the sample strings use.
LowerCase(c) ==
  CASE c = "A" -> "a"
    [] c = "B" -> "b"
    [] c = "C" -> "c"
    [] OTHER -> c

toLowerCase(s) == [i \in 1..Len(s) |-> LowerCase(s[i])]

\* [^\s@]+ : one or more characters, none of them white space or @
NoSpaceNoAt(s) == s # <<>> /\ \A i \in 1..Len(s) : ~IsSpace(s[i]) /\ s[i] # "@"

\* /^[^\s@]+@[^\s@]+\.[^\s@]+$/.test(value)
emailRegex_test(value) ==
  \E at \in 1..Len(value), dot \in 1..Len(value) :
    /\ at < dot
    /\ value[at] = "@"
    /\ value[dot] = "."
    /\ NoSpaceNoAt(SubSeq(value, 1, at - 1))
    /\ NoSpaceNoAt(SubSeq(value, at + 1, dot - 1))
    /\ NoSpaceNoAt(SubSeq(value, dot + 1, Len(value)))

MaxEmailLength == 320

CustomerEmail_create(value) ==
  IF value = <<>> \/ Len(trim(value)) = 0
  THEN Throw("InvalidCustomerEmailError", Str("Customer email cannot be empty"))
  ELSE IF ~emailRegex_test(value)
  THEN Throw("InvalidCustomerEmailError", Str("Customer email must be a valid email address"))
  ELSE IF Len(value) > MaxEmailLength
  THEN Throw("InvalidCustomerEmailError", Str("Customer email cannot exceed 320 characters"))
  ELSE [kind |-> "return", value |-> trim(toLowerCase(value))]

CustomerEmail_equals(this, other) == this.value = other.value

\* ------------------------------------------------------------- OrderStatus

Pending == "pending"
Shipped == "shipped"
Cancelled == "cancelled"
OrderStatus == {Pending, Shipped, Cancelled}

\* ----------------------------------------------------------------- numbers

\* NaN, the value of type number that every comparison answers false for and
\* every product carries on; it stands outside the integers the model uses.
NaN == 0 - 999999

\* a < b, a <= b, a > b, a >= b and a * b on numbers
Lt(a, b) == a # NaN /\ b # NaN /\ a < b
Leq(a, b) == a # NaN /\ b # NaN /\ a <= b
Gt(a, b) == a # NaN /\ b # NaN /\ a > b
Geq(a, b) == a # NaN /\ b # NaN /\ a >= b
Times(a, b) == IF a = NaN \/ b = NaN THEN NaN ELSE a * b

\* --------------------------------------------------------------- OrderItem

\* total that adds where it should multiply.
OrderItem_total_added(item) == item.quantity + item.pricePerUnit

OrderItem_total(item) == Times(item.quantity, item.pricePerUnit)

OrderItem_create(productId, productName, quantity, pricePerUnit) ==
  IF productId = <<>> \/ Len(trim(productId)) = 0
  THEN Throw("InvalidOrderItemError", Str("Product ID cannot be empty"))
  ELSE IF productName = <<>> \/ Len(trim(productName)) = 0
  THEN Throw("InvalidOrderItemError", Str("Product name cannot be empty"))
  ELSE IF Leq(quantity, 0)
  THEN Throw("InvalidOrderItemError", Str("Quantity must be greater than zero"))
  ELSE IF Lt(pricePerUnit, 0)
  THEN Throw("InvalidOrderItemError", Str("Price per unit cannot be negative"))
  ELSE [kind |-> "return",
        new |-> [productId |-> trim(productId), productName |-> trim(productName),
                 quantity |-> quantity, pricePerUnit |-> pricePerUnit]]

OrderItem_toJSON(item) ==
  [productId |-> item.productId, productName |-> item.productName,
   quantity |-> item.quantity, pricePerUnit |-> item.pricePerUnit]

\* The item fields of a request body.
WidgetDTO == [productId |-> Str("prod-1"), productName |-> Str("Widget"),
              quantity |-> 2, pricePerUnit |-> 10]
GadgetDTO == [productId |-> Str("prod-2"), productName |-> Str("Gadget"),
              quantity |-> 5, pricePerUnit |-> 50]
SampleDTO == [productId |-> Str("prod-3"), productName |-> Str("Sample"),
              quantity |-> 1, pricePerUnit |-> 0]
NothingDTO == [productId |-> Str("prod-4"), productName |-> Str("Nothing"),
               quantity |-> 0, pricePerUnit |-> 5]

ItemOf(d) == OrderItem_create(d.productId, d.productName, d.quantity, d.pricePerUnit)

\* Items as OrderItem.create returns them (quantity > 0, pricePerUnit >= 0).
Widget == ItemOf(WidgetDTO).new
Gadget == ItemOf(GadgetDTO).new
Sample == ItemOf(SampleDTO).new

\* The item arrays a caller passes to the factories.
SampleItemLists ==
  {<<>>, <<Widget>>, <<Gadget, Widget>>, <<Sample, Widget, Widget>>}

\* ------------------------------------------------------------------- Order

SampleCustomerIds == {"customer-1"}
SampleDates == {"2025-01-01T10:00:00Z"}

NewOrder(id, customerId, items, status, createdAt) ==
  [id |-> id, customerId |-> customerId, items |-> items, status |-> status,
   createdAt |-> createdAt]

\* The result of a method: what it returns ("this" or a new object with the
\* given fields) or throws, and self, the receiver's fields after the call.
ReturnThis(self) == [kind |-> "return", ret |-> "this", self |-> self]
ReturnNew(self, new) == [kind |-> "return", ret |-> "new", self |-> self, new |-> new]
ThrowFrom(self, name, message) ==
  [kind |-> "throw", error |-> name, message |-> message, self |-> self]

CannotCancelShippedOrderError(orderId) ==
  Str("Cannot cancel order ") \o orderId \o Str(": order has already been shipped")

\* Order.create without the items.length check.
Order_create_unchecked(id, customerId, items, itemsLen, createdAt) ==
  [kind |-> "return", new |-> NewOrder(id, customerId, items, Pending, createdAt)]

\* Order.create; itemsLen is items.length, items the array reference.
Order_create(id, customerId, items, itemsLen, createdAt) ==
  IF itemsLen = 0
  THEN Throw("InvalidOrderError", Str("Order must have at least one item"))
  ELSE [kind |-> "return", new |-> NewOrder(id, customerId, items, Pending, createdAt)]

Order_reconstitute(id, customerId, items, status, createdAt) ==
  [kind |-> "return", new |-> NewOrder(id, customerId, items, status, createdAt)]

\* cancel() without the Shipped guard.
Order_cancel_shippedToo(this) ==
  IF this.status = Cancelled
  THEN ReturnThis(this)
  ELSE ReturnNew(this, NewOrder(this.id, this.customerId, this.items, Cancelled,
                                this.createdAt))

\* cancel() that sets this.status instead of building a new Order.
Order_cancel_inPlace(this) ==
  IF this.status = Shipped
  THEN ThrowFrom(this, "CannotCancelShippedOrderError",
                 CannotCancelShippedOrderError(OrderId_toString(this.id)))
  ELSE ReturnThis([this EXCEPT !.status = Cancelled])

\* cancel() that also sets this.status while building the new Order.
Order_cancel_marksReceiver(this) ==
  IF this.status = Shipped
  THEN ThrowFrom(this, "CannotCancelShippedOrderError",
                 CannotCancelShippedOrderError(OrderId_toString(this.id)))
  ELSE IF this.status = Cancelled
  THEN ReturnThis(this)
  ELSE ReturnNew([this EXCEPT !.status = Cancelled],
                 NewOrder(this.id, this.customerId, this.items, Cancelled, this.createdAt))

\* cancel() that always builds a new Order, also from Cancelled.
Order_cancel_alwaysNew(this) ==
  IF this.status = Shipped
  THEN ThrowFrom(this, "CannotCancelShippedOrderError",
                 CannotCancelShippedOrderError(OrderId_toString(this.id)))
  ELSE ReturnNew(this, NewOrder(this.id, this.customerId, this.items, Cancelled,
                                this.createdAt))

\* cancel() that stamps the new Order with new Date().
Order_cancel_restamped(this) ==
  IF this.status = Shipped
  THEN ThrowFrom(this, "CannotCancelShippedOrderError",
                 CannotCancelShippedOrderError(OrderId_toString(this.id)))
  ELSE IF this.status = Cancelled
  THEN ReturnThis(this)
  ELSE ReturnNew(this, NewOrder(this.id, this.customerId, this.items, Cancelled,
                                "new Date()"))

\* cancel() that reopens a Cancelled order as a new Pending one.
Order_cancel_reopens(this) ==
  IF this.status = Shipped
  THEN ThrowFrom(this, "CannotCancelShippedOrderError",
                 CannotCancelShippedOrderError(OrderId_toString(this.id)))
  ELSE IF this.status = Cancelled
  THEN ReturnNew(this, NewOrder(this.id, this.customerId, this.items, Pending,
                                this.createdAt))
  ELSE ReturnNew(this, NewOrder(this.id, this.customerId, this.items, Cancelled,
                                this.createdAt))

Order_cancel(this) ==
  IF this.status = Shipped
  THEN ThrowFrom(this, "CannotCancelShippedOrderError",
                 CannotCancelShippedOrderError(OrderId_toString(this.id)))
  ELSE IF this.status = Cancelled
  THEN ReturnThis(this)
  ELSE ReturnNew(this, NewOrder(this.id, this.customerId, this.items, Cancelled,
                                this.createdAt))

\* items.reduce((sum, item) => sum + item.total, 0)
RECURSIVE reduceTotal(_, _)
reduceTotal(items, sum) ==
  IF items = <<>> THEN sum
  ELSE reduceTotal(Tail(items), sum + OrderItem_total(Head(items)))

Order_subtotal(items) == reduceTotal(items, 0)

\* ---------------------------------------------------------------- Customer

NewCustomer(id, name, email) == [id |-> id, name |-> name, email |-> email]

Customer_create(id, name, email) == [kind |-> "return", new |-> NewCustomer(id, name, email)]

Customer_reconstitute(id, name, email) ==
  [kind |-> "return", new |-> NewCustomer(id, name, email)]

\* updateName that assigns this.name and returns the receiver.
Customer_updateName_inPlace(this, newName) == ReturnThis([this EXCEPT !.name = newName])

Customer_updateName(this, newName) ==
  ReturnNew(this, NewCustomer(this.id, newName, this.email))

Customer_updateEmail(this, newEmail) ==
  ReturnNew(this, NewCustomer(this.id, this.name, newEmail))

\* --------------------------------------------------------- PricingStrategy

\* Exact arithmetic on <<numerator, denominator>>, denominator > 0.
Num(i) == <<i, 1>>
RatSub(a, b) == <<a[1] * b[2] - b[1] * a[2], a[2] * b[2]>>
RatMul(a, b) == <<a[1] * b[1], a[2] * b[2]>>
RatDiv(a, b) == IF b[1] > 0 THEN <<a[1] * b[2], a[2] * b[1]>>
                ELSE <<(0 - a[1]) * b[2], a[2] * (0 - b[1])>>
RatEq(a, b) == a[1] * b[2] = b[1] * a[2]
RatGeq(a, b) == a[1] * b[2] >= b[1] * a[2]

MinDiscountPercentage == 0
MaxDiscountPercentage == 100
PercentBase == 100

StandardPricing_new == [kind |-> "return", new |-> [type |-> "StandardPricing"]]

\* The constructor with the upper bound excluded.
BulkDiscountPricing_new_exclusive(thresholdAmount, discountPercentage) ==
  IF Lt(discountPercentage, MinDiscountPercentage)
     \/ Geq(discountPercentage, MaxDiscountPercentage)
  THEN Throw("Error", Str("Discount percentage must be between 0 and 100"))
  ELSE [kind |-> "return",
        new |-> [type |-> "BulkDiscountPricing", thresholdAmount |-> thresholdAmount,
                 discountPercentage |-> discountPercentage]]

BulkDiscountPricing_new(thresholdAmount, discountPercentage) ==
  IF Lt(discountPercentage, MinDiscountPercentage)
     \/ Gt(discountPercentage, MaxDiscountPercentage)
  THEN Throw("Error", Str("Discount percentage must be between 0 and 100"))
  ELSE [kind |-> "return",
        new |-> [type |-> "BulkDiscountPricing", thresholdAmount |-> thresholdAmount,
                 discountPercentage |-> discountPercentage]]

PromotionalPricing_new(discountPercentage) ==
  IF Lt(discountPercentage, MinDiscountPercentage)
     \/ Gt(discountPercentage, MaxDiscountPercentage)
  THEN Throw("Error", Str("Discount percentage must be between 0 and 100"))
  ELSE [kind |-> "return",
        new |-> [type |-> "PromotionalPricing", discountPercentage |-> discountPercentage]]

\* subtotal * (1 - discountPercentage / 100); NaN in gives NaN out
Discounted(subtotal, discountPercentage) ==
  IF subtotal = NaN \/ discountPercentage = NaN THEN Num(NaN)
  ELSE RatMul(Num(subtotal),
              RatSub(Num(1), RatDiv(Num(discountPercentage), Num(PercentBase))))

StandardPricing_calculateFinalPrice(this, subtotal) == Num(subtotal)

\* The discount applied only strictly above the threshold.
BulkDiscountPricing_calculateFinalPrice_strict(this, subtotal) ==
  IF Gt(subtotal, this.thresholdAmount)
  THEN Discounted(subtotal, this.discountPercentage)
  ELSE Num(subtotal)

BulkDiscountPricing_calculateFinalPrice(this, subtotal) ==
  IF Geq(subtotal, this.thresholdAmount)
  THEN Discounted(subtotal, this.discountPercentage)
  ELSE Num(subtotal)

PromotionalPricing_calculateFinalPrice(this, subtotal) ==
  Discounted(subtotal, this.discountPercentage)

\* Dispatch on the implementation of the PricingStrategy interface.
calculateFinalPrice(this, subtotal) ==
  CASE this.type = "StandardPricing" -> StandardPricing_calculateFinalPrice(this, subtotal)
    [] this.type = "BulkDiscountPricing" ->
         BulkDiscountPricing_calculateFinalPrice(this, subtotal)
    [] this.type = "PromotionalPricing" ->
         PromotionalPricing_calculateFinalPrice(this, subtotal)

\* calculateTotal that keeps the first strategy it is given in the order and
\* prices with the kept one from then on.
Order_calculateTotal_storesStrategy(this, items, pricingStrategy) ==
  LET kept == IF "pricingStrategy" \in DOMAIN this THEN this.pricingStrategy
              ELSE pricingStrategy
  IN [kind |-> "return", value |-> calculateFinalPrice(kept, Order_subtotal(items)),
      self |-> [f \in DOMAIN this \cup {"pricingStrategy"} |->
                  IF f = "pricingStrategy" THEN kept ELSE this[f]]]

\* Order.calculateTotal; items is the array this.items refers to.
Order_calculateTotal(this, items, pricingStrategy) ==
  [kind |-> "return", value |-> calculateFinalPrice(pricingStrategy, Order_subtotal(items)),
   self |-> this]

\* ------------------------------------------------- PostgresOrderRepository

NoRow == [id |-> <<>>]

\* save with ON CONFLICT (id) DO NOTHING: a stored row is left as it is.
PostgresOrderRepository_save_insertOnly(table, order) ==
  LET id == OrderId_toString(order.id)
      itemsJson == [i \in 1..Len(order.items) |-> OrderItem_toJSON(order.items[i])]
  IN IF table[id] = NoRow
     THEN [table EXCEPT ![id] = [id |-> id, items |-> itemsJson, status |-> order.status,
                                 created_at |-> order.createdAt]]
     ELSE table

\* INSERT ... ON CONFLICT (id) DO UPDATE SET items, status; the orders table after it.
PostgresOrderRepository_save(table, order) ==
  LET id == OrderId_toString(order.id)
      itemsJson == [i \in 1..Len(order.items) |-> OrderItem_toJSON(order.items[i])]
  IN IF table[id] = NoRow
     THEN [table EXCEPT ![id] = [id |-> id, items |-> itemsJson, status |-> order.status,
                                 created_at |-> order.createdAt]]
     ELSE [table EXCEPT ![id].items = itemsJson, ![id].status = order.status]

isValidOrderStatus(status) == status \in OrderStatus

\* parseOrderStatus that takes an unknown string for Pending.
parseOrderStatus_defaultsToPending(status) ==
  IF ~isValidOrderStatus(status)
  THEN [kind |-> "return", value |-> Pending]
  ELSE [kind |-> "return", value |-> status]

parseOrderStatus(status) ==
  IF ~isValidOrderStatus(status)
  THEN Throw("InvalidOrderStatusError", Str("Invalid order status: ") \o Str(status))
  ELSE [kind |-> "return", value |-> status]

\* items.map(OrderItem.create): the first item that fails throws.
MapItems(itemsData) ==
  LET made == [i \in 1..Len(itemsData) |-> ItemOf(itemsData[i])]
      bad == {i \in 1..Len(itemsData) : made[i].kind = "throw"}
  IN IF bad # {}
     THEN made[CHOOSE i \in bad : \A j \in bad : i <= j]
     ELSE [kind |-> "return", value |-> [i \in 1..Len(itemsData) |-> made[i].new]]

\* The customerId of an order read back: the orders row stores none.
NoCustomer == <<>>

PostgresOrderRepository_mapRowToOrder(row) ==
  LET orderId == OrderId_create(row.id)
      items == MapItems(row.items)
      status == parseOrderStatus(row.status)
  IN IF orderId.kind = "throw" THEN orderId
     ELSE IF items.kind = "throw" THEN items
     ELSE IF status.kind = "throw" THEN status
     ELSE Order_reconstitute(orderId.value, NoCustomer, items.value, status.value,
                             row.created_at)

PostgresOrderRepository_findById(table, id) ==
  IF table[OrderId_toString(id)] = NoRow
  THEN [kind |-> "return", found |-> FALSE]
  ELSE LET made == PostgresOrderRepository_mapRowToOrder(table[OrderId_toString(id)])
       IN IF made.kind = "throw"
          THEN Throw("RepositoryError", Str("Failed to find order ") \o OrderId_toString(id))
          ELSE [kind |-> "return", found |-> TRUE, order |-> made.new]

\* ------------------------------------------------------------ OrderService

\* The customers the customer context knows (CustomerValidator.customerExists).
RegisteredCustomers == {<<"c", "1">>}
customerExists(customerId) == customerId \in RegisteredCustomers

Blank(s) == s = <<>> \/ Len(trim(s)) = 0

\* placeOrder that asks for the customer only after it has built the order.
OrderService_placeOrder_customerLast(dto, date) ==
  IF Blank(dto.orderId)
  THEN Throw("OrderValidationError", Str("Order ID is required"))
  ELSE IF Blank(dto.customerId)
  THEN Throw("OrderValidationError", Str("Customer ID is required"))
  ELSE LET orderId == OrderId_create(dto.orderId)
           items == MapItems(dto.items)
       IN IF orderId.kind = "throw" THEN orderId
          ELSE IF items.kind = "throw" THEN items
          ELSE IF Len(items.value) = 0
          THEN Order_create(orderId.value, dto.customerId, items.value, 0, date)
          ELSE IF ~customerExists(dto.customerId)
          THEN Throw("CustomerNotFoundError", dto.customerId)
          ELSE Order_create(orderId.value, dto.customerId, items.value, Len(items.value), date)

\* placeOrder up to its call of orderRepository.save: the order to save, or the error.
OrderService_placeOrder(dto, date) ==
  IF Blank(dto.orderId)
  THEN Throw("OrderValidationError", Str("Order ID is required"))
  ELSE IF Blank(dto.customerId)
  THEN Throw("OrderValidationError", Str("Customer ID is required"))
  ELSE IF ~customerExists(dto.customerId)
  THEN Throw("CustomerNotFoundError", dto.customerId)
  ELSE LET orderId == OrderId_create(dto.orderId)
           items == MapItems(dto.items)
       IN IF orderId.kind = "throw" THEN orderId
          ELSE IF items.kind = "throw" THEN items
          ELSE Order_create(orderId.value, dto.customerId, items.value, Len(items.value), date)

\* cancelOrder up to its call of orderRepository.save: the order to save, or the error.
OrderService_cancelOrder(dto, table) ==
  IF Blank(dto.orderId)
  THEN Throw("OrderValidationError", Str("Order ID is required"))
  ELSE LET orderId == OrderId_create(dto.orderId)
           order == PostgresOrderRepository_findById(table, orderId.value)
       IN IF orderId.kind = "throw" THEN orderId
          ELSE IF order.kind = "throw" THEN order
          ELSE IF ~order.found THEN Throw("OrderNotFoundError", dto.orderId)
          ELSE LET cancelledOrder == Order_cancel(order.order)
               IN IF cancelledOrder.kind = "throw"
                  THEN Throw(cancelledOrder.error, cancelledOrder.message)
                  ELSE IF cancelledOrder.ret = "this"
                  THEN [kind |-> "return", new |-> cancelledOrder.self]
                  ELSE [kind |-> "return", new |-> cancelledOrder.new]

\* getOrderById: the order found, that none is stored, or the error.
OrderService_getOrderById(orderId, table) ==
  IF Blank(orderId)
  THEN Throw("OrderValidationError", Str("Order ID is required"))
  ELSE LET id == OrderId_create(orderId)
       IN IF id.kind = "throw" THEN id
          ELSE PostgresOrderRepository_findById(table, id.value)

toOrderResponseDTO(order) ==
  [id |-> OrderId_toString(order.id), customerId |-> order.customerId,
   items |-> [i \in 1..Len(order.items) |-> OrderItem_toJSON(order.items[i])],
   status |-> order.status, subtotal |-> Order_subtotal(order.items),
   createdAt |-> order.createdAt]

\* ---------------------------------------------- PostgresCustomerRepository

NoCustomerRow == [id |-> <<>>]

\* INSERT ... ON CONFLICT (id) DO UPDATE SET name, email; the customers table
\* after it. InMemoryCustomerRepository.save is the same on a Map: set(id, customer).
PostgresCustomerRepository_save(table, customer) ==
  LET id == CustomerId_toString(customer.id)
  IN IF table[id] = NoCustomerRow
     THEN [table EXCEPT ![id] = [id |-> id, name |-> CustomerName_toString([value |-> customer.name]),
                                 email |-> customer.email]]
     ELSE [table EXCEPT ![id].name = CustomerName_toString([value |-> customer.name]),
                        ![id].email = customer.email]

\* SELECT ... WHERE id = $1, and the row rebuilt through the factories; null is
\* [kind |-> "return", found |-> FALSE].
PostgresCustomerRepository_findById(table, id) ==
  IF id \notin DOMAIN table \/ table[id] = NoCustomerRow
  THEN [kind |-> "return", found |-> FALSE]
  ELSE LET row == table[id]
           customerId == CustomerId_create(row.id)
           name == CustomerName_create(row.name)
           email == CustomerEmail_create(row.email)
       IN IF customerId.kind = "throw" THEN customerId
          ELSE IF name.kind = "throw" THEN name
          ELSE IF email.kind = "throw" THEN email
          ELSE [kind |-> "return", found |-> TRUE,
                value |-> Customer_reconstitute(customerId.value, name.value, email.value).new]

\* --------------------------------------------------------- CustomerService

\* Date.now().toString(): the decimal digits of the clock, as one chunk.
Date_now_toString(ms) == Str(ToString(ms))

\* registerCustomer up to its await: the customer it is about to save, or the
\* error a factory threw.
CustomerService_registerCustomer(dto, ms) ==
  LET customerId == CustomerId_create(Date_now_toString(ms))
      customerName == CustomerName_create(dto.name)
      customerEmail == CustomerEmail_create(dto.email)
  IN IF customerId.kind = "throw" THEN customerId
     ELSE IF customerName.kind = "throw" THEN customerName
     ELSE IF customerEmail.kind = "throw" THEN customerEmail
     ELSE Customer_create(customerId.value, customerName.value, customerEmail.value)

CustomerService_getCustomer(dto, table) == PostgresCustomerRepository_findById(table, dto.id)

\* ------------------------------------------------------- createOrderRoutes

\* The status the catch block of POST /orders answers an error with.
postOrders_catch(error) ==
  IF error = "OrderValidationError" \/ error = "InvalidOrderError" THEN 400
  ELSE IF error = "CustomerNotFoundError" THEN 400
  ELSE 500

\* The status the catch block of POST /orders/:id/cancel answers an error with.
postOrdersCancel_catch(error) ==
  IF error = "OrderValidationError" THEN 400
  ELSE IF error = "OrderNotFoundError" THEN 404
  ELSE IF error = "CannotCancelShippedOrderError" THEN 409
  ELSE 500

\* The status the catch block of GET /orders/:id answers an error with.
getOrders_catch(error) ==
  IF error = "OrderValidationError" THEN 400
  ELSE 500

\* The route of each OrderService operation, and the status of its answers.
createOrderRoutes_catch(op, error) ==
  CASE op = "placeOrder" -> postOrders_catch(error)
    [] op = "cancelOrder" -> postOrdersCancel_catch(error)
    [] op = "getOrderById" -> getOrders_catch(error)

createOrderRoutes_json(op) == IF op = "placeOrder" THEN 201 ELSE 200

\* ------------------------------------------------- the caller of the domain

Refs == 1..Len(heap)
None == [op |-> "none"]

NewCalls == Cardinality({r \in Refs : heap[r].via # "cancel"})

InitOrder ==
  /\ heap = <<>>
  /\ arrays = <<>>
  /\ calls = {}
  /\ last = None

InitPricing ==
  /\ strategy = None
  /\ priced = None

Idle == [op |-> "idle"]

\* The order ids of the requests: one that is valid, and blank ones.
ServiceIdStrings == {<<"o", "1">>, <<" ">>, <<>>}
StoredIds == {s \in ServiceIdStrings : OrderId_create(s).kind = "return"}

InitService ==
  /\ db = [id \in StoredIds |-> NoRow]
  /\ procs = [p \in 1..MaxProcs |-> Idle]
  /\ resp = None
  /\ now = 1

InitValues ==
  /\ objs = <<>>
  /\ tried = None

\* The ids Date.now().toString() can give while the clock runs.
ClockIds == {Date_now_toString(ms) : ms \in 1..MaxClock}

InitCustomers ==
  /\ customers = [id \in ClockIds |-> NoCustomerRow]
  /\ regs = [p \in 1..MaxProcs |-> Idle]
  /\ registered = <<>>

Init == InitOrder /\ InitPricing /\ InitService /\ InitValues /\ InitCustomers

\* The heap after `new Order(...)`: the object, and how the caller obtained it.
Alloc(h, obj, via, from) == Append(h, [obj |-> obj, via |-> via, from |-> from])

\* Order.create(id, customerId, [...items], createdAt)
Create ==
  \E id \in OrderIds, c \in SampleCustomerIds, its \in SampleItemLists, d \in SampleDates :
    LET a == Len(arrays) + 1
        res == Order_create(id, c, a, Len(its), d)
    IN /\ IF res.kind = "return"
          THEN /\ NewCalls < MaxNew
               /\ arrays' = Append(arrays, its)
               /\ heap' = Alloc(heap, res.new, "create", 0)
               /\ last' = [op |-> "create", kind |-> "return", ref |-> Len(heap) + 1,
                           id |-> id, items |-> its]
          ELSE /\ UNCHANGED <<arrays, heap>>
               /\ last' = [op |-> "create", kind |-> "throw", error |-> res.error,
                           id |-> id, items |-> its]
       /\ UNCHANGED <<calls, pricingVars, serviceVars, valueVars, customerVars>>

\* Order.reconstitute(id, customerId, [...items], status, createdAt)
Reconstitute ==
  \E id \in OrderIds, c \in SampleCustomerIds, its \in SampleItemLists,
     st \in OrderStatus, d \in SampleDates :
    LET a == Len(arrays) + 1
        res == Order_reconstitute(id, c, a, st, d)
    IN /\ NewCalls < MaxNew
       /\ arrays' = Append(arrays, its)
       /\ heap' = Alloc(heap, res.new, "reconstitute", 0)
       /\ last' = [op |-> "reconstitute", kind |-> "return", ref |-> Len(heap) + 1,
                   id |-> id, items |-> its]
       /\ UNCHANGED <<calls, pricingVars, serviceVars, valueVars, customerVars>>

\* o.cancel() on an order the caller holds
Cancel ==
  \E this \in Refs :
    LET res == Order_cancel(heap[this].obj)
        h1 == [heap EXCEPT ![this].obj = res.self]
    IN /\ Cardinality(calls) < MaxCancel
       /\ IF res.kind = "throw"
          THEN /\ heap' = h1
               /\ calls' = calls \cup {[this |-> this, kind |-> "throw", error |-> res.error,
                                        message |-> res.message, was |-> heap[this].obj.status]}
          ELSE IF res.ret = "this"
          THEN /\ heap' = h1
               /\ calls' = calls \cup {[this |-> this, kind |-> "return", ref |-> this,
                                        was |-> heap[this].obj.status]}
          ELSE /\ heap' = Alloc(h1, res.new, "cancel", this)
               /\ calls' = calls \cup {[this |-> this, kind |-> "return", ref |-> Len(heap) + 1,
                                        was |-> heap[this].obj.status]}
       /\ last' = [op |-> "cancel", this |-> this]
       /\ UNCHANGED <<arrays, pricingVars, serviceVars, valueVars, customerVars>>

\* o.subtotal read by the caller
ReadSubtotal ==
  \E this \in Refs :
    /\ last' = [op |-> "subtotal", this |-> this,
                value |-> Order_subtotal(arrays[heap[this].obj.items])]
    /\ UNCHANGED <<heap, arrays, calls, pricingVars, serviceVars, valueVars, customerVars>>

Next == Create \/ Reconstitute \/ Cancel \/ ReadSubtotal

Spec == Init /\ [][Next]_vars

\* The strategies a caller passes to calculateTotal.
SampleStrategies ==
  {StandardPricing_new.new, BulkDiscountPricing_new(200, 10).new, PromotionalPricing_new(20).new}

\* o.calculateTotal(pricingStrategy) on an order the caller holds
CalculateTotal ==
  \E this \in Refs, s \in SampleStrategies :
    LET res == Order_calculateTotal(heap[this].obj, arrays[heap[this].obj.items], s)
    IN /\ heap' = [heap EXCEPT ![this].obj = res.self]
       /\ last' = [op |-> "calculateTotal", this |-> this, strategy |-> s,
                   value |-> res.value,
                   before |-> IF last.op = "calculateTotal" /\ last.this = this
                              THEN last.strategy.type ELSE "none"]
       /\ UNCHANGED <<arrays, calls, pricingVars, serviceVars, valueVars, customerVars>>

NextTotal == Create \/ Reconstitute \/ ReadSubtotal \/ CalculateTotal

SpecTotal == Init /\ [][NextTotal]_vars

\* Array.prototype.push, pop and `length = 0` on the array a caller passed in
Array_push(array, item) == Append(array, item)
Array_pop(array) == SubSeq(array, 1, Len(array) - 1)
Array_clear(array) == <<>>

\* items.push(item) by the caller that still holds the array it passed
PushItem ==
  \E a \in 1..Len(arrays), item \in {Widget, Gadget} :
    /\ Len(arrays[a]) < MaxItems
    /\ arrays' = [arrays EXCEPT ![a] = Array_push(arrays[a], item)]
    /\ last' = [op |-> "push", array |-> a]
    /\ UNCHANGED <<heap, calls, pricingVars, serviceVars, valueVars, customerVars>>

\* items.pop() by the caller
PopItem ==
  \E a \in 1..Len(arrays) :
    /\ Len(arrays[a]) > 0
    /\ arrays' = [arrays EXCEPT ![a] = Array_pop(arrays[a])]
    /\ last' = [op |-> "pop", array |-> a]
    /\ UNCHANGED <<heap, calls, pricingVars, serviceVars, valueVars, customerVars>>

\* items.length = 0 by the caller
ClearItems ==
  \E a \in 1..Len(arrays) :
    /\ arrays' = [arrays EXCEPT ![a] = Array_clear(arrays[a])]
    /\ last' = [op |-> "clear", array |-> a]
    /\ UNCHANGED <<heap, calls, pricingVars, serviceVars, valueVars, customerVars>>

NextCaller == Create \/ Reconstitute \/ ReadSubtotal \/ PushItem \/ PopItem \/ ClearItems

SpecCaller == Init /\ [][NextCaller]_vars

\* ----------------------------------------- the caller of the pricing strategies

Percentages == (MinDiscountPercentage - PctMargin)..(MaxDiscountPercentage + PctMargin)
Amounts == (0 - 1)..MaxAmount

Constructed(op, res, thresholdAmount, discountPercentage) ==
  IF res.kind = "return"
  THEN [op |-> op, kind |-> "return", obj |-> res.new,
        thresholdAmount |-> thresholdAmount, discountPercentage |-> discountPercentage]
  ELSE [op |-> op, kind |-> "throw", error |-> res.error,
        thresholdAmount |-> thresholdAmount, discountPercentage |-> discountPercentage]

\* new StandardPricing()
NewStandardPricing ==
  /\ strategy' = Constructed("StandardPricing", StandardPricing_new, 0, 0)
  /\ priced' = None
  /\ UNCHANGED <<orderVars, serviceVars, valueVars, customerVars>>

\* new BulkDiscountPricing(thresholdAmount, discountPercentage)
NewBulkDiscountPricing ==
  \E t \in Amounts, pct \in Percentages :
    /\ strategy' = Constructed("BulkDiscountPricing", BulkDiscountPricing_new(t, pct), t, pct)
    /\ priced' = None
    /\ UNCHANGED <<orderVars, serviceVars, valueVars, customerVars>>

\* new PromotionalPricing(discountPercentage)
NewPromotionalPricing ==
  \E pct \in Percentages :
    /\ strategy' = Constructed("PromotionalPricing", PromotionalPricing_new(pct), 0, pct)
    /\ priced' = None
    /\ UNCHANGED <<orderVars, serviceVars, valueVars, customerVars>>

\* strategy.calculateFinalPrice(x) on the strategy just constructed
CalculateFinalPrice ==
  \E x \in Amounts :
    /\ strategy.op # "none"
    /\ strategy.kind = "return"
    /\ priced' = [op |-> "calculateFinalPrice", subtotal |-> x,
                  value |-> calculateFinalPrice(strategy.obj, x)]
    /\ UNCHANGED <<strategy, orderVars, serviceVars, valueVars, customerVars>>

NextPricing ==
  NewStandardPricing \/ NewBulkDiscountPricing \/ NewPromotionalPricing \/ CalculateFinalPrice

SpecPricing == Init /\ [][NextPricing]_vars


\* The numbers createAppWithBulkDiscount can be given: percentages at and around
\* both limits, and NaN, what Number() makes of a setting that is not numeric.
ConfiguredPercentages ==
  {MinDiscountPercentage - 1, MinDiscountPercentage, 10, 50, MaxDiscountPercentage,
   MaxDiscountPercentage + 1, NaN}
ConfiguredThresholds == {0, MaxAmount - 1, NaN}

\* new BulkDiscountPricing(thresholdAmount, discountPercentage) at the composition root
ConfigureBulkDiscount ==
  \E t \in ConfiguredThresholds, pct \in ConfiguredPercentages :
    /\ strategy' = Constructed("BulkDiscountPricing", BulkDiscountPricing_new(t, pct), t, pct)
    /\ priced' = None
    /\ UNCHANGED <<orderVars, serviceVars, valueVars, customerVars>>

\* new PromotionalPricing(discountPercentage) at the composition root
ConfigurePromotion ==
  \E pct \in ConfiguredPercentages :
    /\ strategy' = Constructed("PromotionalPricing", PromotionalPricing_new(pct), 0, pct)
    /\ priced' = None
    /\ UNCHANGED <<orderVars, serviceVars, valueVars, customerVars>>

\* strategy.calculateFinalPrice(x) for a subtotal x >= 0
PriceSubtotal ==
  \E x \in 0..MaxAmount :
    /\ strategy.op # "none"
    /\ strategy.kind = "return"
    /\ priced' = [op |-> "calculateFinalPrice", subtotal |-> x,
                  value |-> calculateFinalPrice(strategy.obj, x)]
    /\ UNCHANGED <<strategy, orderVars, serviceVars, valueVars, customerVars>>

NextDiscount ==
  NewStandardPricing \/ ConfigureBulkDiscount \/ ConfigurePromotion \/ PriceSubtotal

SpecDiscount == Init /\ [][NextDiscount]_vars

\* ------------------------------------------- the caller of the value objects

\* The strings given to the id factories: empty, white space only, and three
\* that differ in surrounding white space only.
SampleValueStrings ==
  {<<>>, <<" ">>, <<" ", " ">>, <<"a">>, <<" ", "a">>, <<"a", " ">>}

ObjRefs == 1..Len(objs)

\* The value object a factory returned, as the caller holds it.
Wrapped(type, given, res) == [type |-> type, given |-> given, value |-> res.value]

\* What the caller sees of a factory call.
Outcome(op, given, res) ==
  IF res.kind = "return"
  THEN [op |-> op, kind |-> "return", input |-> given, ref |-> Len(objs) + 1]
  ELSE [op |-> op, kind |-> "throw", input |-> given, error |-> res.error,
        message |-> res.message]

\* OrderId.create(value)
CreateOrderId ==
  \E value \in SampleValueStrings :
    LET res == OrderId_create(value)
    IN /\ res.kind = "return" => Len(objs) < MaxObjs
       /\ objs' = IF res.kind = "return" THEN Append(objs, Wrapped("OrderId", value, res))
                  ELSE objs
       /\ tried' = Outcome("OrderId.create", value, res)
       /\ UNCHANGED <<orderVars, pricingVars, serviceVars, customerVars>>

\* CustomerId.create(value)
CreateCustomerId ==
  \E value \in SampleValueStrings :
    LET res == CustomerId_create(value)
    IN /\ res.kind = "return" => Len(objs) < MaxObjs
       /\ objs' = IF res.kind = "return" THEN Append(objs, Wrapped("CustomerId", value, res))
                  ELSE objs
       /\ tried' = Outcome("CustomerId.create", value, res)
       /\ UNCHANGED <<orderVars, pricingVars, serviceVars, customerVars>>

\* a.equals(b) on two ids of one class
Equals ==
  \E a \in ObjRefs, b \in ObjRefs :
    /\ objs[a].type = objs[b].type
    /\ tried' = [op |-> "equals", kind |-> "return", this |-> a, other |-> b,
                value |-> IF objs[a].type = "OrderId"
                          THEN OrderId_equals(objs[a], objs[b])
                          ELSE CustomerId_equals(objs[a], objs[b])]
    /\ UNCHANGED <<objs, orderVars, pricingVars, serviceVars, customerVars>>

NextIds == CreateOrderId \/ CreateCustomerId \/ Equals

SpecIds == Init /\ [][NextIds]_vars

\* The strings given as product id and product name.
SampleProductStrings == {<<>>, <<" ">>, <<"p">>, <<" ", "p", " ">>}
\* The numbers given as quantity and as price per unit.
Quantities == ((0 - 1)..MaxQuantity) \cup {NaN}
Prices == ((0 - 1)..MaxPrice) \cup {NaN}

\* OrderItem.create(productId, productName, quantity, pricePerUnit), and the
\* total of the item it returns
MakeOrderItem ==
  \E productId \in SampleProductStrings, productName \in SampleProductStrings,
     quantity \in Quantities, pricePerUnit \in Prices :
    LET res == OrderItem_create(productId, productName, quantity, pricePerUnit)
        args == [productId |-> productId, productName |-> productName,
                 quantity |-> quantity, pricePerUnit |-> pricePerUnit]
    IN /\ tried' = IF res.kind = "return"
                   THEN [op |-> "OrderItem.create", kind |-> "return", input |-> args,
                         new |-> res.new, total |-> OrderItem_total(res.new)]
                   ELSE [op |-> "OrderItem.create", kind |-> "throw", input |-> args,
                         error |-> res.error, message |-> res.message]
       /\ UNCHANGED <<objs, orderVars, pricingVars, serviceVars, customerVars>>

\* The strings given as a status: the three of the enumeration, and others.
SampleStatusStrings ==
  {"pending", "shipped", "cancelled", "delivered", "canceled", "Pending", "SHIPPED", "",
   " pending"}

\* parseOrderStatus(status)
ParseOrderStatus ==
  \E status \in SampleStatusStrings :
    LET res == parseOrderStatus(status)
    IN /\ tried' = IF res.kind = "return"
                   THEN [op |-> "parseOrderStatus", kind |-> "return", input |-> status,
                         value |-> res.value]
                   ELSE [op |-> "parseOrderStatus", kind |-> "throw", input |-> status,
                         error |-> res.error, message |-> res.message]
       /\ UNCHANGED <<objs, orderVars, pricingVars, serviceVars, customerVars>>

\* The rows of the orders table a SELECT can return.
SampleRows ==
  [id : {<<"o", "1">>}, items : {<<WidgetDTO>>, <<GadgetDTO, WidgetDTO>>},
   status : SampleStatusStrings, created_at : {1}]

\* mapRowToOrder(row), as findById applies it to the row it selected
MapRowToOrder ==
  \E row \in SampleRows :
    LET res == PostgresOrderRepository_mapRowToOrder(row)
    IN /\ tried' = IF res.kind = "return"
                   THEN [op |-> "mapRowToOrder", kind |-> "return", input |-> row,
                         new |-> res.new]
                   ELSE [op |-> "mapRowToOrder", kind |-> "throw", input |-> row,
                         error |-> res.error, message |-> res.message]
       /\ UNCHANGED <<objs, orderVars, pricingVars, serviceVars, customerVars>>

NextValues == MakeOrderItem \/ ParseOrderStatus \/ MapRowToOrder

SpecValues == Init /\ [][NextValues]_vars

\* The strings given to CustomerEmail.create, character by character.
SampleEmailStrings ==
  {<<"a", "@", "b", ".", "c">>, <<"A", "@", "b", ".", "c">>, <<"A", "@", "B", ".", "C">>,
   <<" ", "a", "@", "b", ".", "c">>, <<"a", "@", "b", ".", "c", " ">>,
   <<" ", "A", "@", "b", ".", "c", " ">>, <<"b", "@", "b", ".", "c">>,
   <<"a", "@", "b">>, <<"@", "b", ".", "c">>, <<"a", " ", "b", "@", "b", ".", "c">>,
   <<"a", "@", "@", "b", ".", "c">>, <<"a", "@", "b", ".", "c", ".", "c">>, <<" ">>, <<>>}

\* CustomerEmail.create(value)
CreateCustomerEmail ==
  \E value \in SampleEmailStrings :
    LET res == CustomerEmail_create(value)
    IN /\ tried' = IF res.kind = "return"
                   THEN [op |-> "CustomerEmail.create", kind |-> "return", input |-> value,
                         value |-> res.value]
                   ELSE [op |-> "CustomerEmail.create", kind |-> "throw", input |-> value,
                         error |-> res.error, message |-> res.message]
       /\ UNCHANGED <<objs, orderVars, pricingVars, serviceVars, customerVars>>

\* CustomerEmail.create(first).equals(CustomerEmail.create(second))
CompareCustomerEmails ==
  \E first \in SampleEmailStrings, second \in SampleEmailStrings :
    LET this == CustomerEmail_create(first)
        other == CustomerEmail_create(second)
    IN /\ tried' = IF this.kind = "throw"
                   THEN [op |-> "CustomerEmail.equals", kind |-> "throw", first |-> first,
                         second |-> second, threw |-> "first", error |-> this.error]
                   ELSE IF other.kind = "throw"
                   THEN [op |-> "CustomerEmail.equals", kind |-> "throw", first |-> first,
                         second |-> second, threw |-> "second", error |-> other.error]
                   ELSE [op |-> "CustomerEmail.equals", kind |-> "return", first |-> first,
                         second |-> second, value |-> CustomerEmail_equals(this, other)]
       /\ UNCHANGED <<objs, orderVars, pricingVars, serviceVars, customerVars>>

NextCustomer == CreateCustomerEmail \/ CompareCustomerEmails

SpecCustomer == Init /\ [][NextCustomer]_vars

\* "x".repeat(n), character by character
Repeat(c, n) == [i \in 1..n |-> c]

\* The strings given to CustomerName.create: empty, white space only, short
\* names with and without padding, and names of 200 and 201 characters, bare
\* and padded.
SampleNameStrings ==
  {<<>>, <<" ">>, <<"a">>, <<" ", "a", " ">>, <<"a", " ", "b">>,
   Repeat("a", MaxNameLength), Repeat("a", MaxNameLength + 1),
   <<" ">> \o Repeat("a", MaxNameLength) \o <<" ">>,
   <<" ">> \o Repeat("a", MaxNameLength + 1)}

\* CustomerName.create(value)
CreateCustomerName ==
  \E value \in SampleNameStrings :
    LET res == CustomerName_create(value)
    IN /\ res.kind = "return" => Len(objs) < MaxObjs
       /\ objs' = IF res.kind = "return"
                  THEN Append(objs, Wrapped("CustomerName", value, res))
                  ELSE objs
       /\ tried' = Outcome("CustomerName.create", value, res)
       /\ UNCHANGED <<orderVars, pricingVars, serviceVars, customerVars>>

\* CustomerName.create(name.toString()), compared with name by equals
RecreateCustomerName ==
  \E this \in ObjRefs :
    LET res == CustomerName_create(CustomerName_toString(objs[this]))
    IN /\ objs[this].type = "CustomerName"
       /\ tried' = IF res.kind = "return"
                   THEN [op |-> "CustomerName.recreate", kind |-> "return", this |-> this,
                         value |-> res.value,
                         equals |-> CustomerName_equals(objs[this], res)]
                   ELSE [op |-> "CustomerName.recreate", kind |-> "throw", this |-> this,
                         error |-> res.error, message |-> res.message]
       /\ UNCHANGED <<objs, orderVars, pricingVars, serviceVars, customerVars>>

NextNames == CreateCustomerName \/ RecreateCustomerName

SpecNames == Init /\ [][NextNames]_vars

\* The value objects a caller builds customers from: the factories' results.
SampleCustomerIdObjects ==
  {CustomerId_create(s).value : s \in {<<"c", "1">>, <<"c", "2">>}}
SampleCustomerNames == {CustomerName_create(s).value : s \in {<<"a">>, <<"a", " ", "b">>}}
SampleCustomerEmails ==
  {CustomerEmail_create(s).value :
     s \in {<<"a", "@", "b", ".", "c">>, <<"b", "@", "b", ".", "c">>}}

\* The caller's heap after `new Customer(...)`: the object, its fields as they
\* were when it was constructed, and the call that returned it.
AllocCustomer(h, obj, via, from, arg) ==
  Append(h, [type |-> "Customer", obj |-> obj, born |-> obj, via |-> via, from |-> from,
             arg |-> arg])

\* Customer.create(id, name, email)
CreateCustomer ==
  \E id \in SampleCustomerIdObjects, name \in SampleCustomerNames,
     email \in SampleCustomerEmails :
    LET res == Customer_create(id, name, email)
    IN /\ Len(objs) < MaxObjs
       /\ objs' = AllocCustomer(objs, res.new, "create", 0, <<>>)
       /\ tried' = [op |-> "Customer.create", kind |-> "return", ref |-> Len(objs) + 1]
       /\ UNCHANGED <<orderVars, pricingVars, serviceVars, customerVars>>

\* Customer.reconstitute(id, name, email)
ReconstituteCustomer ==
  \E id \in SampleCustomerIdObjects, name \in SampleCustomerNames,
     email \in SampleCustomerEmails :
    LET res == Customer_reconstitute(id, name, email)
    IN /\ Len(objs) < MaxObjs
       /\ objs' = AllocCustomer(objs, res.new, "reconstitute", 0, <<>>)
       /\ tried' = [op |-> "Customer.reconstitute", kind |-> "return", ref |-> Len(objs) + 1]
       /\ UNCHANGED <<orderVars, pricingVars, serviceVars, customerVars>>

\* What an update method's result does to the caller's heap.
Updated(this, res, via, arg) ==
  LET h1 == [objs EXCEPT ![this].obj = res.self]
  IN /\ res.ret = "new" => Len(objs) < MaxObjs
     /\ objs' = IF res.ret = "this" THEN h1 ELSE AllocCustomer(h1, res.new, via, this, arg)
     /\ tried' = [op |-> via, kind |-> "return", this |-> this,
                  ref |-> IF res.ret = "this" THEN this ELSE Len(objs) + 1]
     /\ UNCHANGED <<orderVars, pricingVars, serviceVars, customerVars>>

\* c.updateName(newName) on a customer the caller holds
UpdateName ==
  \E this \in ObjRefs, newName \in SampleCustomerNames :
    Updated(this, Customer_updateName(objs[this].obj, newName), "updateName", newName)

\* c.updateEmail(newEmail) on a customer the caller holds
UpdateEmail ==
  \E this \in ObjRefs, newEmail \in SampleCustomerEmails :
    Updated(this, Customer_updateEmail(objs[this].obj, newEmail), "updateEmail", newEmail)

NextCustomers == CreateCustomer \/ ReconstituteCustomer \/ UpdateName \/ UpdateEmail

SpecCustomers == Init /\ [][NextCustomers]_vars

\* --------------------------------------------- the callers of the OrderService

SampleCustomerStrings == {<<"c", "1">>, <<"c", "9">>, <<>>}
DtoItemLists == {<<>>, <<WidgetDTO>>, <<GadgetDTO, WidgetDTO>>, <<WidgetDTO, NothingDTO>>}

Failed(op, dto, res) ==
  [op |-> op, orderId |-> dto.orderId, kind |-> "throw", error |-> res.error]
Answered(op, dto, order) ==
  [op |-> op, orderId |-> dto.orderId, kind |-> "return", body |-> toOrderResponseDTO(order)]

\* placeOrder(dto), from its start to the await of orderRepository.save
PlaceOrderBegin ==
  \E p \in 1..MaxProcs, id \in ServiceIdStrings, c \in SampleCustomerStrings,
     its \in DtoItemLists :
    LET dto == [orderId |-> id, customerId |-> c, items |-> its]
        res == OrderService_placeOrder(dto, now)
    IN /\ procs[p] = Idle
       /\ IF res.kind = "throw"
          THEN /\ resp' = Failed("placeOrder", dto, res)
               /\ UNCHANGED procs
          ELSE /\ procs' = [procs EXCEPT ![p] = [op |-> "placeOrder", dto |-> dto,
                                                 order |-> res.new]]
               /\ UNCHANGED resp
       /\ UNCHANGED <<db, now, orderVars, pricingVars, valueVars, customerVars>>

\* the INSERT of placeOrder's save, and the rest of placeOrder
PlaceOrderSave ==
  \E p \in 1..MaxProcs :
    /\ procs[p].op = "placeOrder"
    /\ db' = PostgresOrderRepository_save(db, procs[p].order)
    /\ resp' = Answered("placeOrder", procs[p].dto, procs[p].order)
    /\ procs' = [procs EXCEPT ![p] = Idle]
    /\ UNCHANGED <<now, orderVars, pricingVars, valueVars, customerVars>>

\* cancelOrder(dto), from its start (the SELECT of findById) to the await of save
CancelOrderBegin ==
  \E p \in 1..MaxProcs, id \in ServiceIdStrings :
    LET dto == [orderId |-> id]
        res == OrderService_cancelOrder(dto, db)
    IN /\ procs[p] = Idle
       /\ IF res.kind = "throw"
          THEN /\ resp' = Failed("cancelOrder", dto, res)
               /\ UNCHANGED procs
          ELSE /\ procs' = [procs EXCEPT ![p] = [op |-> "cancelOrder", dto |-> dto,
                                                 order |-> res.new]]
               /\ UNCHANGED resp
       /\ UNCHANGED <<db, now, orderVars, pricingVars, valueVars, customerVars>>

\* the INSERT of cancelOrder's save, and the rest of cancelOrder
CancelOrderSave ==
  \E p \in 1..MaxProcs :
    /\ procs[p].op = "cancelOrder"
    /\ db' = PostgresOrderRepository_save(db, procs[p].order)
    /\ resp' = Answered("cancelOrder", procs[p].dto, procs[p].order)
    /\ procs' = [procs EXCEPT ![p] = Idle]
    /\ UNCHANGED <<now, orderVars, pricingVars, valueVars, customerVars>>

\* time passes
Tick ==
  /\ now < MaxClock
  /\ now' = now + 1
  /\ UNCHANGED <<db, procs, resp, orderVars, pricingVars, valueVars, customerVars>>

NextService ==
  PlaceOrderBegin \/ PlaceOrderSave \/ CancelOrderBegin \/ CancelOrderSave \/ Tick

SpecService == Init /\ [][NextService]_vars

\* The value of a parameter the caller left out.
Undefined == "undefined"

\* new Date() when the clock reads ms
Date_new(ms) == ToString(ms)

\* Order.create(id, customerId, items, createdAt), and the same call with the
\* last argument left out, as the test of cancel() makes it
CreateAt ==
  \E id \in OrderIds, c \in SampleCustomerIds, its \in SampleItemLists,
     d \in SampleDates \cup {Undefined} :
    LET a == Len(arrays) + 1
        res == Order_create(id, c, a, Len(its), d)
    IN /\ IF res.kind = "return"
          THEN /\ NewCalls < MaxNew
               /\ arrays' = Append(arrays, its)
               /\ heap' = Alloc(heap, res.new, "create", 0)
               /\ last' = [op |-> "createAt", kind |-> "return", ref |-> Len(heap) + 1,
                           createdAt |-> d, clock |-> now]
          ELSE /\ UNCHANGED <<arrays, heap>>
               /\ last' = [op |-> "createAt", kind |-> "throw", error |-> res.error,
                           createdAt |-> d, clock |-> now]
       /\ UNCHANGED <<calls, pricingVars, serviceVars, valueVars, customerVars>>

NextDates == CreateAt \/ Cancel \/ ReadSubtotal \/ Tick

SpecDates == Init /\ [][NextDates]_vars

\* ------------------------------------------- the callers of the OrderRepository

\* The orders handed to save: built by the domain at the time the clock shows.
SavedOrders ==
  {Order_reconstitute(OrderId_create(id).value, "customer-1", its, st, now).new :
     id \in StoredIds, its \in {<<Widget>>, <<Gadget>>, <<Sample>>, <<Gadget, Widget>>, <<Widget, Gadget>>},
     st \in OrderStatus}

\* The order the caller saved last, if any.
LastSaved == IF resp.op \in {"save", "findById"} THEN resp.saved ELSE None

\* repository.save(order)
RepositorySave ==
  \E order \in SavedOrders :
    /\ db' = PostgresOrderRepository_save(db, order)
    /\ resp' = [op |-> "save", kind |-> "return", saved |-> order]
    /\ UNCHANGED <<procs, now, orderVars, pricingVars, valueVars, customerVars>>

\* repository.findById(id)
RepositoryFindById ==
  \E id \in StoredIds :
    LET res == PostgresOrderRepository_findById(db, OrderId_create(id).value)
    IN /\ resp' = [op |-> "findById", id |-> id, saved |-> LastSaved, result |-> res]
       /\ UNCHANGED <<db, procs, now, orderVars, pricingVars, valueVars, customerVars>>

NextRepository == RepositorySave \/ RepositoryFindById \/ Tick

SpecRepository == Init /\ [][NextRepository]_vars

\* --------------------------------------------- the callers of the CustomerService

\* The registration requests: two valid ones, one with a blank name, one with
\* an address the pattern rejects.
RegisterDtos ==
  {[name |-> <<"a">>, email |-> <<"a", "@", "b", ".", "c">>],
   [name |-> <<"b">>, email |-> <<"b", "@", "b", ".", "c">>],
   [name |-> <<" ">>, email |-> <<"a", "@", "b", ".", "c">>],
   [name |-> <<"a">>, email |-> <<"a", "@", "b">>]}

Saving == {p \in 1..MaxProcs : regs[p].op = "save"}

\* registerCustomer(dto) up to `await this.customerRepository.save(customer)`
RegisterCustomerBegin ==
  \E p \in 1..MaxProcs, dto \in RegisterDtos :
    LET res == CustomerService_registerCustomer(dto, now)
    IN /\ regs[p] = Idle
       /\ IF res.kind = "throw"
          THEN /\ resp' = [op |-> "registerCustomer", kind |-> "throw", error |-> res.error]
               /\ UNCHANGED regs
          ELSE /\ Len(registered) + Cardinality(Saving) < MaxRegistered
               /\ regs' = [regs EXCEPT ![p] = [op |-> "save", customer |-> res.new]]
               /\ UNCHANGED resp
       /\ UNCHANGED <<customers, registered, db, procs, now, orderVars, pricingVars, valueVars>>

\* the save of a registerCustomer call, and its `return customer`
RegisterCustomerSave ==
  \E p \in Saving :
    /\ customers' = PostgresCustomerRepository_save(customers, regs[p].customer)
    /\ registered' = Append(registered, regs[p].customer)
    /\ regs' = [regs EXCEPT ![p] = Idle]
    /\ resp' = [op |-> "registerCustomer", kind |-> "return", value |-> regs[p].customer]
    /\ UNCHANGED <<db, procs, now, orderVars, pricingVars, valueVars>>

\* getCustomer(dto)
GetCustomer ==
  \E id \in ClockIds \cup {<<"c", "1">>} :
    LET res == CustomerService_getCustomer([id |-> id], customers)
    IN /\ resp' = [op |-> "getCustomer", id |-> id, kind |-> res.kind,
                   found |-> res.kind = "return" /\ res.found]
       /\ UNCHANGED <<db, procs, now, customerVars, orderVars, pricingVars, valueVars>>

NextRegister == RegisterCustomerBegin \/ RegisterCustomerSave \/ GetCustomer \/ Tick

SpecRegister == Init /\ [][NextRegister]_vars

\* ------------------------------------------------- the clients of the routes

\* The rows the orders table holds for the one order id when the server starts:
\* orders placed, shipped and cancelled earlier (status is of the type
\* order_status, one of the three).
SeedRows ==
  [id : StoredIds, items : {<<WidgetDTO>>, <<GadgetDTO, WidgetDTO>>},
   status : OrderStatus, created_at : {0}]

InitStored ==
  /\ db \in [StoredIds -> {NoRow} \cup SeedRows]
  /\ \A id \in StoredIds : db[id] = NoRow \/ db[id].id = id
  /\ procs = [p \in 1..MaxProcs |-> Idle]
  /\ resp = None
  /\ now = 1

InitRoutes == InitOrder /\ InitPricing /\ InitValues /\ InitStored /\ InitCustomers

\* The status stored for an order id, "none" when no row is stored.
StoredStatus(table, orderId) ==
  IF orderId \notin DOMAIN table \/ table[orderId] = NoRow THEN "none"
  ELSE table[orderId].status

\* What a route answers: the request, what the orders table held for its id,
\* the outcome of the OrderService call and the HTTP status sent.
Thrown(op, dto, res) ==
  [op |-> op, dto |-> dto, was |-> StoredStatus(db, dto.orderId), kind |-> "throw",
   error |-> res.error, http |-> createOrderRoutes_catch(op, res.error)]
Sent(op, dto, order) ==
  [op |-> op, dto |-> dto, was |-> StoredStatus(db, dto.orderId), kind |-> "return",
   body |-> toOrderResponseDTO(order), http |-> createOrderRoutes_json(op)]
\* GET /orders/:id when getOrderById returns null
SentNotFound(op, dto) ==
  [op |-> op, dto |-> dto, was |-> StoredStatus(db, dto.orderId), kind |-> "return",
   http |-> 404]

\* POST /orders, served to its answer
PostOrders ==
  \E id \in ServiceIdStrings, c \in SampleCustomerStrings, its \in DtoItemLists :
    LET dto == [orderId |-> id, customerId |-> c, items |-> its]
        res == OrderService_placeOrder(dto, now)
    IN /\ IF res.kind = "throw"
          THEN /\ resp' = Thrown("placeOrder", dto, res)
               /\ UNCHANGED db
          ELSE /\ db' = PostgresOrderRepository_save(db, res.new)
               /\ resp' = Sent("placeOrder", dto, res.new)
       /\ UNCHANGED <<procs, now, orderVars, pricingVars, valueVars, customerVars>>

\* POST /orders/:id/cancel, served to its answer
PostOrdersCancel ==
  \E id \in ServiceIdStrings :
    LET dto == [orderId |-> id]
        res == OrderService_cancelOrder(dto, db)
    IN /\ IF res.kind = "throw"
          THEN /\ resp' = Thrown("cancelOrder", dto, res)
               /\ UNCHANGED db
          ELSE /\ db' = PostgresOrderRepository_save(db, res.new)
               /\ resp' = Sent("cancelOrder", dto, res.new)
       /\ UNCHANGED <<procs, now, orderVars, pricingVars, valueVars, customerVars>>

\* GET /orders/:id, served to its answer
GetOrders ==
  \E id \in ServiceIdStrings :
    LET dto == [orderId |-> id]
        res == OrderService_getOrderById(id, db)
    IN /\ resp' = IF res.kind = "throw" THEN Thrown("getOrderById", dto, res)
                  ELSE IF ~res.found THEN SentNotFound("getOrderById", dto)
                  ELSE Sent("getOrderById", dto, res.order)
       /\ UNCHANGED <<db, procs, now, orderVars, pricingVars, valueVars, customerVars>>

NextRoutes == PostOrders \/ PostOrdersCancel \/ GetOrders \/ Tick

SpecRoutes == InitRoutes /\ [][NextRoutes]_vars

\* cancelOrder and getOrderById calls, interleaved, on the rows stored at the start
NextStored == CancelOrderBegin \/ CancelOrderSave \/ GetOrders

SpecStored == InitRoutes /\ [][NextStored]_vars

\* ------------------------------------------------------ the Order aggregate

ItemsOf(r) == arrays[heap[r].obj.items]
Returned == {c \in calls : c.kind = "return"}

\* C1: cancel() on an Order whose status is Shipped never returns: it throws
\* CannotCancelShippedOrderError, and the message contains the order's id string.
C1_CancelShippedThrows ==
  \A c \in calls :
    c.was = Shipped =>
      /\ c.kind = "throw"
      /\ c.error = "CannotCancelShippedOrderError"
      /\ Includes(c.message, OrderId_toString(heap[c.this].obj.id))

C1_Witness ==
  \E c \in calls : c.was = Shipped /\ c.kind = "throw" /\ heap[c.this].via = "reconstitute"

\* C2: cancel() on a Pending Order returns an Order with status Cancelled that
\* is a different object from the receiver.
C2_CancelPendingReturnsNewCancelled ==
  \A c \in calls :
    c.was = Pending =>
      /\ c.kind = "return"
      /\ c.ref # c.this
      /\ heap[c.ref].obj.status = Cancelled

C2_Witness ==
  \E c \in calls : c.was = Pending /\ c.kind = "return" /\ c.ref \in Refs \ {c.this}

\* The orders n further cancel() calls lead to, starting from the orders in S.
RECURSIVE CancelledAgain(_, _)
CancelledAgain(S, n) ==
  IF n = 0 THEN S
  ELSE CancelledAgain({c.ref : c \in {d \in Returned : d.this \in S}}, n - 1)

\* C3: cancel() on a Cancelled Order returns the receiver itself, so applying
\* cancel() n >= 1 times to a Pending order gives the same object as applying it once.
C3_CancelIdempotentSameObject ==
  /\ \A c \in calls : c.was = Cancelled => c.kind = "return" /\ c.ref = c.this
  /\ \A c \in Returned :
       c.was = Pending =>
         \A n \in 0..MaxCancel : CancelledAgain({c.ref}, n) \subseteq {c.ref}

C3_Witness ==
  \E c \in Returned, d \in Returned :
    c.was = Pending /\ d.this = c.ref /\ d.was = Cancelled /\ d.ref = c.ref

\* C4: cancel() never changes the order it is called on: every field of every
\* existing order, and the items it holds, are the same after the call as before.
C4_CancelLeavesReceiverUnchanged ==
  [][last'.op = "cancel" =>
       \A r \in Refs : heap'[r].obj = heap[r].obj /\ arrays'[heap[r].obj.items] = ItemsOf(r)]_vars

C4_Witness ==
  \E c \in Returned :
    /\ c.was = Pending
    /\ heap[c.this].obj.status = Pending
    /\ heap[c.ref].obj.status = Cancelled

\* C5: Order.create throws InvalidOrderError for an empty item sequence, and for
\* one or more items returns a Pending Order holding exactly the given id and items.
C5_CreateChecksItems ==
  last.op = "create" =>
    /\ Len(last.items) = 0 => last.kind = "throw" /\ last.error = "InvalidOrderError"
    /\ Len(last.items) >= 1 =>
         /\ last.kind = "return"
         /\ heap[last.ref].obj.status = Pending
         /\ heap[last.ref].obj.id = last.id
         /\ ItemsOf(last.ref) = last.items

C5_Witness ==
  /\ last.op = "create" /\ last.kind = "throw" /\ last.items = <<>>
  /\ \E r \in Refs : heap[r].via = "create" /\ Len(ItemsOf(r)) >= 2

\* The factory an order goes back to through the cancel() calls that made it.
RECURSIVE Factory(_)
Factory(r) == IF heap[r].via = "cancel" THEN Factory(heap[r].from) ELSE heap[r].via

RECURSIVE SumOfProducts(_, _)
SumOfProducts(items, n) ==
  IF n = 0 THEN 0
  ELSE SumOfProducts(items, n - 1) + items[n].quantity * items[n].pricePerUnit

IsDiscountOf(v, x, pct) == 100 * v[1] = x * (100 - pct) * v[2]

C10_PercentageValidated ==
  strategy.op \in {"BulkDiscountPricing", "PromotionalPricing"} =>
    /\ (strategy.discountPercentage < 0 \/ strategy.discountPercentage > 100)
         => strategy.kind = "throw"
    /\ (strategy.discountPercentage >= 0 /\ strategy.discountPercentage <= 100)
         => strategy.kind = "return"

C10_Witness ==
  /\ strategy.op = "BulkDiscountPricing"
  /\ strategy.kind = "return"
  /\ strategy.discountPercentage = 100
  /\ strategy.thresholdAmount < 0


\* What calculateTotal has to return for subtotal x under strategy s.
IsTotalOf(v, x, s) ==
  CASE s.type = "StandardPricing" -> v[1] = x * v[2]
    [] s.type = "BulkDiscountPricing" ->
         IF x >= s.thresholdAmount THEN IsDiscountOf(v, x, s.discountPercentage)
         ELSE v[1] = x * v[2]
    [] s.type = "PromotionalPricing" -> IsDiscountOf(v, x, s.discountPercentage)

\* C11: calculateTotal(strategy) is strategy.calculateFinalPrice(subtotal) for
\* every order and strategy, whatever strategy an earlier call was given, and
\* the call leaves every order and its items as they were: no strategy is kept.
C11_TotalIsStrategyOfSubtotal ==
  [][last'.op = "calculateTotal" =>
       /\ heap' = heap
       /\ arrays' = arrays
       /\ IsTotalOf(last'.value,
                    SumOfProducts(ItemsOf(last'.this), Len(ItemsOf(last'.this))),
                    last'.strategy)]_vars

C11_Witness ==
  /\ last.op = "calculateTotal"
  /\ last.before = "PromotionalPricing"
  /\ last.strategy.type = "BulkDiscountPricing"
  /\ RatEq(last.value, Num(243))
  /\ heap[last.this].via = "create"

\* ----------------------------------------------------------- value objects

\* What equals answers for the ids held at a and b.
IdEquals(a, b) ==
  IF objs[a].type = "OrderId" THEN OrderId_equals(objs[a], objs[b])
  ELSE CustomerId_equals(objs[a], objs[b])

SameClass(a, b) == objs[a].type = objs[b].type

\* C17: OrderId.create and CustomerId.create throw InvalidOrderIdError /
\* InvalidCustomerIdError for every empty or white-space-only string and wrap
\* every other string exactly as given; equals is true exactly when the two
\* strings given are identical, and is reflexive, symmetric and transitive.
C17_IdsValidatedAndEqualByValue ==
  /\ tried.op \in {"OrderId.create", "CustomerId.create"} =>
       IF tried.input = <<>> \/ \A i \in 1..Len(tried.input) : tried.input[i] = " "
       THEN /\ tried.kind = "throw"
            /\ tried.error = IF tried.op = "OrderId.create" THEN "InvalidOrderIdError"
                            ELSE "InvalidCustomerIdError"
       ELSE tried.kind = "return" /\ objs[tried.ref].value = tried.input
  /\ tried.op = "equals" =>
       (tried.value <=> objs[tried.this].given = objs[tried.other].given)
  /\ \A a \in ObjRefs : IdEquals(a, a)
  /\ \A a \in ObjRefs, b \in ObjRefs :
       SameClass(a, b) =>
         /\ IdEquals(a, b) <=> objs[a].given = objs[b].given
         /\ IdEquals(a, b) => IdEquals(b, a)
  /\ \A a \in ObjRefs, b \in ObjRefs, c \in ObjRefs :
       (SameClass(a, b) /\ SameClass(b, c) /\ IdEquals(a, b) /\ IdEquals(b, c))
         => IdEquals(a, c)

C17_Witness ==
  /\ tried.op = "equals" /\ tried.value /\ tried.this # tried.other
  /\ objs[tried.this].value = <<" ", "a">>
  /\ \E c \in ObjRefs : SameClass(c, tried.this) /\ ~IdEquals(c, tried.this)
                           /\ objs[c].value = <<"a">>

WhiteSpaceOnly(s) == \A i \in 1..Len(s) : s[i] = " "

\* The message of the first rule of OrderItem.create the arguments break.
FirstBrokenRule(a) ==
  IF WhiteSpaceOnly(a.productId) THEN Str("Product ID cannot be empty")
  ELSE IF WhiteSpaceOnly(a.productName) THEN Str("Product name cannot be empty")
  ELSE IF a.quantity # NaN /\ a.quantity <= 0 THEN Str("Quantity must be greater than zero")
  ELSE IF a.pricePerUnit # NaN /\ a.pricePerUnit < 0
  THEN Str("Price per unit cannot be negative")
  ELSE <<>>

\* C18: OrderItem.create throws InvalidOrderItemError, with the message of the
\* first broken rule, exactly when the product id or name is empty or white
\* space only, quantity <= 0 or pricePerUnit < 0; every item it returns has
\* quantity > 0, pricePerUnit >= 0 and total = quantity * pricePerUnit >= 0.
C18_ItemsValidated ==
  tried.op = "OrderItem.create" =>
    IF FirstBrokenRule(tried.input) # <<>>
    THEN /\ tried.kind = "throw"
         /\ tried.error = "InvalidOrderItemError"
         /\ tried.message = FirstBrokenRule(tried.input)
    ELSE /\ tried.kind = "return"
         /\ tried.new.quantity # NaN /\ tried.new.quantity > 0
         /\ tried.new.pricePerUnit # NaN /\ tried.new.pricePerUnit >= 0
         /\ tried.total # NaN
         /\ tried.total = tried.new.quantity * tried.new.pricePerUnit
         /\ tried.total >= 0

\* C19: parseOrderStatus returns the status for exactly the strings pending,
\* shipped and cancelled and throws InvalidOrderStatusError for every other
\* string, so the order mapRowToOrder builds from a row has one of the three
\* statuses, the one of its row.
C19_StatusIsClosed ==
  /\ tried.op = "parseOrderStatus" =>
       IF tried.input \in {"pending", "shipped", "cancelled"}
       THEN tried.kind = "return" /\ tried.value = tried.input
       ELSE tried.kind = "throw" /\ tried.error = "InvalidOrderStatusError"
  /\ tried.op = "mapRowToOrder" =>
       IF tried.input.status \in {"pending", "shipped", "cancelled"}
       THEN tried.kind = "return" /\ tried.new.status = tried.input.status
       ELSE tried.kind = "throw" /\ tried.error = "InvalidOrderStatusError"

C19_Witness ==
  /\ tried.op = "mapRowToOrder"
  /\ tried.input.status = "delivered"
  /\ tried.kind = "throw"

UpperLetters == {"A", "B", "C"}

\* a and b are the same string but for the case of their letters.
DifferOnlyInCase(a, b) ==
  /\ Len(a) = Len(b)
  /\ \A i \in 1..Len(a) :
       \/ a[i] = b[i]
       \/ <<a[i], b[i]>> \in {<<"a", "A">>, <<"A", "a">>, <<"b", "B">>, <<"B", "b">>,
                              <<"c", "C">>, <<"C", "c">>}

\* s without the white space before and after it.
RECURSIVE Unpadded(_)
Unpadded(s) ==
  IF s = <<>> THEN s
  ELSE IF Head(s) = " " THEN Unpadded(Tail(s))
  ELSE IF s[Len(s)] = " " THEN Unpadded(SubSeq(s, 1, Len(s) - 1))
  ELSE s

DifferOnlyInPadding(a, b) == Unpadded(a) = Unpadded(b)

\* C20: every email CustomerEmail.create returns is stored lower-case and without
\* leading or trailing white space, and when one input succeeds, an input that
\* differs from it only in letter case, or only in surrounding white space,
\* succeeds as well and gives an email equal to the first under equals().
C20_EmailNormalized ==
  /\ (tried.op = "CustomerEmail.create" /\ tried.kind = "return") =>
       /\ \A i \in 1..Len(tried.value) : tried.value[i] \notin UpperLetters
       /\ tried.value # <<>>
       /\ Head(tried.value) # " " /\ tried.value[Len(tried.value)] # " "
  /\ (/\ tried.op = "CustomerEmail.equals"
      /\ \/ tried.kind = "return"
         \/ tried.threw = "second"
      /\ \/ DifferOnlyInCase(tried.first, tried.second)
         \/ DifferOnlyInPadding(tried.first, tried.second))
       => tried.kind = "return" /\ tried.value

\* -------------------------------------------------------------- error kinds

\* The error kinds of the domain layer.
DomainErrorKinds ==
  {"InvalidOrderError", "InvalidOrderItemError", "InvalidOrderStatusError",
   "InvalidOrderIdError", "InvalidCustomerIdError", "InvalidCustomerNameError",
   "InvalidCustomerEmailError", "CannotCancelShippedOrderError"}

\* C12: every failing validation of the domain layer (the id, item, status,
\* name and email factories, Order.create, cancel() and the constructors of the
\* discount strategies) throws one of the named domain error kinds, never the
\* generic Error.
C12_DomainFailuresAreNamed ==
  /\ (strategy.op # "none" /\ strategy.kind = "throw") => strategy.error \in DomainErrorKinds
  /\ (tried.op # "none" /\ tried.kind = "throw") => tried.error \in DomainErrorKinds
  /\ (last.op = "create" /\ last.kind = "throw") => last.error \in DomainErrorKinds
  /\ \A c \in calls : c.kind = "throw" => c.error \in DomainErrorKinds

\* ------------------------------------------------------------ order service

Stored(table, id) == table[id] # NoRow

\* C7: the status stored for an order id never moves from Cancelled or Shipped
\* back to Pending: the only change made to a stored status is Pending to Cancelled.
C7_StoredStatusOneDirectional ==
  [][\A id \in StoredIds :
       (Stored(db, id) /\ Stored(db', id) /\ db'[id].status # db[id].status)
         => (db[id].status = Pending /\ db'[id].status = Cancelled)]_vars

\* A request item that passes every rule of OrderItem.create.
ValidItem(d) ==
  /\ ~WhiteSpaceOnly(d.productId)
  /\ ~WhiteSpaceOnly(d.productName)
  /\ d.quantity > 0
  /\ d.pricePerUnit >= 0

\* A POST /orders body that fails validation: a blank id, no items, or an item
\* that breaks a rule.
InvalidBody(dto) ==
  \/ WhiteSpaceOnly(dto.orderId)
  \/ WhiteSpaceOnly(dto.customerId)
  \/ dto.items = <<>>
  \/ \E i \in 1..Len(dto.items) : ~ValidItem(dto.items[i])

\* The error kinds the routes have a status for.
ExpectedErrorKinds ==
  DomainErrorKinds \cup {"OrderValidationError", "OrderNotFoundError", "CustomerNotFoundError"}

\* C13: the order routes answer every validation failure of the request (blank
\* order or customer id, empty items, an invalid item) with 400, an order that
\* does not exist with 404 on GET /orders/:id and POST /orders/:id/cancel,
\* cancelling a shipped order with 409, and with 500 only an unexpected error.
C13_FailuresMapToStatus ==
  /\ (resp.op = "placeOrder" /\ InvalidBody(resp.dto)) => resp.http = 400
  /\ (resp.op \in {"cancelOrder", "getOrderById"} /\ WhiteSpaceOnly(resp.dto.orderId))
       => resp.http = 400
  /\ (resp.op \in {"cancelOrder", "getOrderById"} /\ ~WhiteSpaceOnly(resp.dto.orderId)
        /\ resp.was = "none") => resp.http = 404
  /\ (resp.op = "cancelOrder" /\ resp.was = Shipped) => resp.http = 409
  /\ (resp.op # "none" /\ resp.http = 500)
       => resp.kind = "throw" /\ resp.error \notin ExpectedErrorKinds

\* C14: placeOrder throws OrderValidationError and saves nothing whenever the
\* order id is blank, the customer id is blank or the items list is empty.
C14_PlaceOrderValidatesDto ==
  [][(/\ resp' # resp
      /\ resp'.op = "placeOrder"
      /\ \/ WhiteSpaceOnly(resp'.dto.orderId)
         \/ WhiteSpaceOnly(resp'.dto.customerId)
         \/ resp'.dto.items = <<>>)
       => /\ resp'.kind = "throw"
          /\ resp'.error = "OrderValidationError"
          /\ db' = db]_vars

\* C15: placeOrder for a customer that does not exist throws
\* CustomerNotFoundError and leaves the stored orders as they are, whether or
\* not the items of the request are valid: the customer is checked first.
C15_UnknownCustomerNeverSaved ==
  [][(/\ resp' # resp
      /\ resp'.op = "placeOrder"
      /\ ~WhiteSpaceOnly(resp'.dto.orderId)
      /\ ~WhiteSpaceOnly(resp'.dto.customerId)
      /\ resp'.dto.customerId \notin RegisteredCustomers)
       => /\ resp'.kind = "throw"
          /\ resp'.error = "CustomerNotFoundError"
          /\ db' = db]_vars

C15_Witness ==
  /\ resp.op = "placeOrder"
  /\ resp.kind = "throw" /\ resp.error = "CustomerNotFoundError"
  /\ resp.dto.customerId = <<"c", "9">>
  /\ \E i \in 1..Len(resp.dto.items) : ~ValidItem(resp.dto.items[i])
  /\ resp.was = Cancelled

\* C16: a cancelOrder that fails leaves the orders table and the calls in
\* flight as they are; for an id with no stored order it fails with
\* OrderNotFoundError and for a Shipped one with CannotCancelShippedOrderError,
\* and cancelOrder reaches its save only for an order stored as Pending or
\* Cancelled, so a row whose status is Shipped is never changed.
C16_FailedCancelChangesNothing ==
  [][/\ (resp' # resp /\ resp'.op = "cancelOrder" /\ resp'.kind = "throw") =>
          /\ db' = db
          /\ procs' = procs
          /\ ~WhiteSpaceOnly(resp'.orderId) =>
               /\ StoredStatus(db, resp'.orderId) = "none"
                    => resp'.error = "OrderNotFoundError"
               /\ StoredStatus(db, resp'.orderId) = Shipped
                    => resp'.error = "CannotCancelShippedOrderError"
     /\ \A p \in 1..MaxProcs :
          (procs[p] = Idle /\ procs'[p] # Idle /\ procs'[p].op = "cancelOrder")
            => StoredStatus(db, procs'[p].dto.orderId) \in {Pending, Cancelled}
     /\ \A id \in StoredIds : StoredStatus(db, id) = Shipped => db'[id] = db[id]]_vars

C16_Witness ==
  /\ resp.op = "cancelOrder"
  /\ resp.kind = "throw" /\ resp.error = "CannotCancelShippedOrderError"
  /\ \E id \in StoredIds : StoredStatus(db, id) = Shipped /\ resp.orderId = id
  /\ \E p \in 1..MaxProcs : procs[p] = Idle

\* ------------------------------------------------------------ customer names

\* C21: CustomerName.create throws InvalidCustomerNameError for an empty or
\* white-space-only string and for one whose trimmed length exceeds 200; for
\* every other string it stores the trimmed string, so a stored name is never
\* empty and never longer than 200 characters, and creating a name from a
\* stored name's string succeeds and gives a name equal to it.
C21_NameValidated ==
  /\ tried.op = "CustomerName.create" =>
       IF WhiteSpaceOnly(tried.input) \/ Len(Unpadded(tried.input)) > 200
       THEN tried.kind = "throw" /\ tried.error = "InvalidCustomerNameError"
       ELSE /\ tried.kind = "return"
            /\ objs[tried.ref].type = "CustomerName"
            /\ objs[tried.ref].value = Unpadded(tried.input)
  /\ \A a \in ObjRefs :
       objs[a].type = "CustomerName" => Len(objs[a].value) \in 1..200
  /\ tried.op = "CustomerName.recreate" => tried.kind = "return" /\ tried.equals

\* A padded name of exactly 200 characters was stored trimmed, and created again
\* from its own string.
C21_Witness ==
  /\ tried.op = "CustomerName.recreate"
  /\ tried.kind = "return"
  /\ Len(objs[tried.this].given) = 202
  /\ Len(objs[tried.this].value) = 200

\* ------------------------------------------------------------------ customers

\* C22: updateName and updateEmail return a new Customer that has the
\* receiver's id and differs from the receiver only in the updated field, and
\* after any sequence of updates every customer the caller holds, the original
\* included, still has the id, name and email it was constructed with.
C22_CustomerImmutable ==
  \A r \in ObjRefs :
    /\ objs[r].obj = objs[r].born
    /\ objs[r].via \in {"updateName", "updateEmail"} =>
         /\ objs[r].from # r
         /\ objs[r].born.id = objs[objs[r].from].born.id
    /\ objs[r].via = "updateName" =>
         /\ objs[r].born.name = objs[r].arg
         /\ objs[r].born.email = objs[objs[r].from].born.email
    /\ objs[r].via = "updateEmail" =>
         /\ objs[r].born.email = objs[r].arg
         /\ objs[r].born.name = objs[objs[r].from].born.name
  /\ (tried.op \in {"updateName", "updateEmail"} => tried.ref # tried.this)

\* A created customer was renamed, and the renamed one given another email:
\* three customers with one id, three different states.
C22_Witness ==
  \E a \in ObjRefs, b \in ObjRefs, c \in ObjRefs :
    /\ objs[a].via = "create"
    /\ objs[b].via = "updateName" /\ objs[b].from = a
    /\ objs[c].via = "updateEmail" /\ objs[c].from = b
    /\ objs[a].obj.name # objs[b].obj.name
    /\ objs[b].obj.email # objs[c].obj.email


\* C23: for any sequence or interleaving of registerCustomer calls, no two
\* customers it has returned share an id, and every one of them is what
\* getCustomer finds under its id: no registration replaced an earlier one.
C23_RegistrationsUnique ==
  /\ \A i, j \in 1..Len(registered) :
       i # j => ~CustomerId_equals([value |-> registered[i].id], [value |-> registered[j].id])
  /\ \A i \in 1..Len(registered) :
       LET res == CustomerService_getCustomer(
                    [id |-> CustomerId_toString(registered[i].id)], customers)
       IN res.kind = "return" /\ res.found /\ res.value = registered[i]

\* ------------------------------------------------- cancelling and its reach

\* C24: the order cancel() returns for a Pending order differs from the
\* receiver in status only: it has the receiver's id, customerId and createdAt,
\* and its items are the receiver's own array, the same reference, not a copy.
C24_CancelChangesOnlyStatus ==
  \A c \in Returned :
    c.was = Pending =>
      /\ heap[c.ref].obj.id = heap[c.this].obj.id
      /\ heap[c.ref].obj.customerId = heap[c.this].obj.customerId
      /\ heap[c.ref].obj.createdAt = heap[c.this].obj.createdAt
      /\ heap[c.ref].obj.items = heap[c.this].obj.items
      /\ heap[c.ref].obj.status = Cancelled

\* A Pending order with two items was cancelled into a second object.
C24_Witness ==
  \E c \in Returned :
    /\ c.was = Pending
    /\ c.ref # c.this
    /\ heap[c.this].obj.status = Pending
    /\ Len(ItemsOf(c.ref)) = 2

\* The orders reachable from r by cancel() calls, r itself included.
RECURSIVE ReachableByCancel(_, _)
ReachableByCancel(S, n) ==
  IF n = 0 THEN S
  ELSE ReachableByCancel(S \cup {c.ref : c \in {d \in Returned : d.this \in S}}, n - 1)

\* C25: every order reachable by cancel() calls from an order that create
\* returned is Pending or Cancelled, never Shipped, and every order reachable by
\* cancel() calls from a Cancelled order is Cancelled.
C25_ShippedOnlyByReconstitute ==
  \A r \in Refs :
    /\ heap[r].via = "create" =>
         \A s \in ReachableByCancel({r}, MaxCancel + 1) :
           heap[s].obj.status \in {Pending, Cancelled}
    /\ heap[r].obj.status = Cancelled =>
         \A s \in ReachableByCancel({r}, MaxCancel + 1) : heap[s].obj.status = Cancelled

\* A created order was cancelled, and the cancelled order cancelled again.
C25_Witness ==
  \E c \in Returned, d \in Returned :
    /\ heap[c.this].via = "create"
    /\ c.was = Pending
    /\ d.this = c.ref
    /\ d.was = Cancelled
    /\ heap[d.ref].obj.status = Cancelled

\* --------------------------------------------------------- the items array

\* C26: once create or reconstitute has returned, no push, pop or emptying of
\* the array the caller passed in changes the items, the item count or the
\* subtotal of any order.
C26_ItemsImmutableOnceSet ==
  [][last'.op \in {"push", "pop", "clear"} =>
       \A r \in Refs :
         /\ arrays'[heap'[r].obj.items] = ItemsOf(r)
         /\ Len(arrays'[heap'[r].obj.items]) = Len(ItemsOf(r))
         /\ Order_subtotal(arrays'[heap'[r].obj.items]) = Order_subtotal(ItemsOf(r))]_vars

\* ------------------------------------------------------------ creation time

\* C27: the order Order.create returns has the createdAt the caller passed,
\* unchanged, and when the caller passed none its createdAt is the time of the
\* call, never undefined.
C27_CreatedAtGivenOrNow ==
  (last.op = "createAt" /\ last.kind = "return") =>
    /\ heap[last.ref].obj.createdAt # Undefined
    /\ heap[last.ref].obj.createdAt =
         IF last.createdAt = Undefined THEN Date_new(last.clock) ELSE last.createdAt

\* ------------------------------------------------------------- repository

\* C28: findById of an id under which nothing was saved returns null, and
\* after save(o) it returns an order with o's id, o's items in o's order, o's
\* status and o's createdAt, also when the id was already stored before.
C28_SaveFindRoundTrip ==
  resp.op = "findById" =>
    /\ resp.result.kind = "return"
    /\ IF resp.saved = None
       THEN ~resp.result.found
       ELSE /\ resp.result.found
            /\ resp.result.order.id = resp.saved.id
            /\ resp.result.order.items = resp.saved.items
            /\ resp.result.order.status = resp.saved.status
            /\ resp.result.order.createdAt = resp.saved.createdAt

\* ------------------------------------------------------ concurrent cancelling

\* C29: for an order stored as Pending, in every interleaving of the findById
\* and save steps of cancelOrder calls for its id, every call that finishes
\* returns status cancelled and leaves the stored status Cancelled, the stored
\* status never goes back to Pending, and the stored id, items and createdAt
\* stay what they were before the first call.
C29_ConcurrentCancelIsSafe ==
  [][\A id \in StoredIds :
       StoredStatus(db, id) \in {Pending, Cancelled} =>
         /\ db'[id].id = db[id].id
         /\ db'[id].items = db[id].items
         /\ db'[id].created_at = db[id].created_at
         /\ db'[id].status \in {db[id].status, Cancelled}
         /\ (resp' # resp /\ resp'.op = "cancelOrder" /\ resp'.orderId = id) =>
              /\ resp'.kind = "return"
              /\ resp'.body.status = Cancelled
              /\ db'[id].status = Cancelled]_vars

\* Two cancelOrder calls read the same Pending row; one has saved and returned,
\* the other still holds its order and is about to save.
C29_Witness ==
  \E id \in StoredIds, p \in 1..MaxProcs :
    /\ StoredStatus(db, id) = Cancelled
    /\ Len(db[id].items) = 2
    /\ resp.op = "cancelOrder" /\ resp.kind = "return" /\ resp.orderId = id
    /\ procs[p] # Idle
    /\ procs[p].op = "cancelOrder"
    /\ procs[p].dto.orderId = id

\* --------------------------------------------------------- discount bounds

\* v is a number and 0 <= v <= x, for v a ratio with a positive denominator.
WithinPrice(v, x) ==
  /\ v[1] # NaN
  /\ v[1] >= 0
  /\ v[1] <= x * v[2]

\* C30: for every strategy whose constructor returned and every subtotal
\* x >= 0, calculateFinalPrice(x) is a number between 0 and x, both included.
C30_DiscountWithinPrice ==
  (priced.op = "calculateFinalPrice" /\ priced.subtotal >= 0) =>
    WithinPrice(priced.value, priced.subtotal)

====
